---- MODULE Spec2Model ----
(***************************************************************************)
(* The kldiv_loss operator of paddle/fluid/operators/kldiv_loss_op.cc:     *)
(* its registration into the operator catalog, its attribute schema, the   *)
(* shape inference of kldiv_loss and kldiv_loss_grad, the choice of the    *)
(* kernel key, and the construction of the backward node.                  *)
(***************************************************************************)
EXTENDS Integers, Sequences, FiniteSets, TLC

VARIABLES
    pc,            \* phase of the process: init, ready, built, rejected, ...
    pending,       \* registrations of this file that have not run yet
    opInfoMap,     \* catalog: operator type -> OpInfo
    allOpKernels,  \* dispatch table: set of kernel keys
    node,          \* the operator node being constructed or executed
    gradOps,       \* the backward nodes made for node
    varDims,       \* variable name -> dimensions
    varDtype,      \* variable name -> data type of the bound tensor
    isRuntime,     \* IsRuntime() of the last shape inference
    execPlace,     \* device kind of the execution context of the last run
    kernelKey,     \* the kernel key of the last dispatch
    err            \* outcome of the last operation

vars == <<pc, pending, opInfoMap, allOpKernels, node, gradOps, varDims,
          varDtype, isRuntime, execPlace, kernelKey, err>>

(***************************************************************************)
(* Bounds of the model.                                                    *)
(***************************************************************************)
MaxRank == 2
MaxDim == 2

Ranks == 1..MaxRank
\* At graph construction a dimension is a known size or -1 (unknown).
StaticDimValues == {-1} \cup (1..MaxDim)
\* At execution every dimension is concrete; a tensor may be empty.
RuntimeDimValues == 0..MaxDim
ShapesOver(values) == UNION {[1..r -> values] : r \in Ranks}
StaticShapes == ShapesOver(StaticDimValues)
RuntimeShapes == ShapesOver(RuntimeDimValues)

EmptyMap == [s \in {} |-> ""]
NoSlots == [s \in {} |-> <<>>]
NoDims == [s \in {} |-> <<>>]
NoDtypes == [s \in {} |-> ""]
\* An operator node: type, slot -> bound variable names, attribute map.
OpDesc(type, inputs, outputs, attrs) ==
    [type |-> type, inputs |-> inputs, outputs |-> outputs, attrs |-> attrs]
NoNode == OpDesc("", NoSlots, NoSlots, EmptyMap)
\* Dimensions of a variable no shape inference has written yet.
UnsetDim == <<>>

Err(kind, what, index) == [kind |-> kind, what |-> what, index |-> index]
OK == Err("OK", "", -1)
NotFound(what) == Err("NotFound", what, -1)
InvalidArgument(what, index) == Err("InvalidArgument", what, index)

GradSuffix == "@GRAD"
GradVarName(name) == name \o GradSuffix

(***************************************************************************)
(* Registrations made by the file.                                         *)
(***************************************************************************)
\* Variant: the marker names Target.
NoNeedBuffer_Target == {"Target"}

KLDivLossGradNoNeedBufferVarInference == {"X"}

\* REGISTER_OPERATOR(kldiv_loss, KLDivLossOp, KLDivLossOpMaker, grad makers)
RegisterKLDivLoss ==
    [kind |-> "op", type |-> "kldiv_loss",
     info |-> [attrs |-> {"reduction"}, gradOpMaker |-> TRUE,
               noNeedBuffer |-> {}],
     keys |-> {}]

\* Variant: the second REGISTER_OPERATOR repeats the first type name.
RegisterKLDivLossGrad_SameType ==
    [kind |-> "op", type |-> "kldiv_loss",
     info |-> [attrs |-> {}, gradOpMaker |-> FALSE,
               noNeedBuffer |-> NoNeedBuffer_Target],
     keys |-> {}]

\* REGISTER_OPERATOR(kldiv_loss_grad, KLDivLossOpGrad, no-need-buffer inferer)
RegisterKLDivLossGrad ==
    [kind |-> "op", type |-> "kldiv_loss_grad",
     info |-> [attrs |-> {}, gradOpMaker |-> FALSE,
               noNeedBuffer |-> KLDivLossGradNoNeedBufferVarInference],
     keys |-> {}]

NoInfo == [attrs |-> {}, gradOpMaker |-> FALSE, noNeedBuffer |-> {}]
KernelKey(op, place, dtype) == [op |-> op, place |-> place, dtype |-> dtype]
NoKey == KernelKey("", "", "")

\* REGISTER_OP_CPU_KERNEL(op, Kernel<CPUDeviceContext, float>, <..., double>)
CpuKernels(op) ==
    [kind |-> "kernel", type |-> op, info |-> NoInfo,
     keys |-> {KernelKey(op, "CPU", "FP32"), KernelKey(op, "CPU", "FP64")}]

RegisterKLDivLossKernels == CpuKernels("kldiv_loss")
RegisterKLDivLossGradKernels == CpuKernels("kldiv_loss_grad")

Registrations ==
    {RegisterKLDivLoss, RegisterKLDivLossGrad,
     RegisterKLDivLossKernels, RegisterKLDivLossGradKernels}

Init ==
    /\ pc = "init"
    /\ pending = Registrations
    /\ opInfoMap = [t \in {} |-> NoInfo]
    /\ allOpKernels = {}
    /\ node = NoNode
    /\ gradOps = <<>>
    /\ varDims = NoDims
    /\ varDtype = NoDtypes
    /\ isRuntime = FALSE
    /\ execPlace = ""
    /\ kernelKey = NoKey
    /\ err = OK

(***************************************************************************)
(* Catalog: registration of operator types and kernels.  A registration    *)
(* that conflicts with an entry fails, changes nothing and aborts the      *)
(* initialization.                                                         *)
(***************************************************************************)
RegisterOperator(r) ==
    /\ pc = "init"
    /\ r.kind = "op"
    /\ IF r.type \in DOMAIN opInfoMap
       THEN /\ err' = Err("DuplicateOperatorType", r.type, -1)
            /\ pc' = "aborted"
            /\ UNCHANGED <<opInfoMap, pending>>
       ELSE /\ opInfoMap' = (r.type :> r.info) @@ opInfoMap
            /\ pending' = pending \ {r}
            /\ err' = OK
            /\ pc' = "init"
    /\ UNCHANGED <<allOpKernels, node, gradOps, varDims, varDtype, isRuntime,
                   execPlace, kernelKey>>

RegisterOpKernel(r) ==
    /\ pc = "init"
    /\ r.kind = "kernel"
    /\ IF r.keys \cap allOpKernels # {}
       THEN /\ err' = Err("DuplicateKernel", r.type, -1)
            /\ pc' = "aborted"
            /\ UNCHANGED <<allOpKernels, pending>>
       ELSE /\ allOpKernels' = allOpKernels \cup r.keys
            /\ pending' = pending \ {r}
            /\ err' = OK
            /\ pc' = "init"
    /\ UNCHANGED <<opInfoMap, node, gradOps, varDims, varDtype, isRuntime,
                   execPlace, kernelKey>>

\* The quiescence barrier between initialization and use.
InitDone ==
    /\ pc = "init"
    /\ pending = {}
    /\ pc' = "ready"
    /\ UNCHANGED <<pending, opInfoMap, allOpKernels, node, gradOps, varDims,
                   varDtype, isRuntime, execPlace, kernelKey, err>>

(***************************************************************************)
(* KLDivLossOpMaker::Make: the schema of kldiv_loss.                       *)
(***************************************************************************)
MakerInputs == {"X", "Target"}
MakerOutputs == {"Loss"}
\* AddAttr<std::string>("reduction", ...).SetDefault("mean")
MakerAttrDefaults == ("reduction" :> "mean")

ValidReductions == {"none", "batchmean", "mean", "sum"}
Reductions == ValidReductions \cup {"invalid_value"}

\* The checker the declaration of "reduction" installs: it fills in the
\* default of an attribute that was not supplied, and checks nothing else.
OpAttrChecker(supplied) ==
    [a \in DOMAIN supplied \cup DOMAIN MakerAttrDefaults |->
        IF a \in DOMAIN supplied THEN supplied[a] ELSE MakerAttrDefaults[a]]

\* Validation of a supplied attribute map against the declared attributes.
Validate(type, supplied) ==
    IF DOMAIN supplied \subseteq opInfoMap[type].attrs
    THEN OK
    ELSE Err("SchemaViolation",
             CHOOSE a \in DOMAIN supplied : a \notin opInfoMap[type].attrs, -1)

(***************************************************************************)
(* The shape inference context of one InferShape call.                     *)
(***************************************************************************)
Bound(slots) == {s \in DOMAIN slots : slots[s] # <<>>}

ShapeCtx(n, dims, runtime) ==
    [inputs |-> Bound(n.inputs),
     outputs |-> Bound(n.outputs),
     dims |-> [s \in {t \in Bound(n.inputs) : n.inputs[t][1] \in DOMAIN dims}
                 |-> dims[n.inputs[s][1]]],
     isRuntime |-> runtime,
     attrs |-> n.attrs]

HasInput(ctx, slot) == slot \in ctx.inputs
HasOutput(ctx, slot) == slot \in ctx.outputs
GetInputDim(ctx, slot) == ctx.dims[slot]

\* The result of a call: the error raised (or OK) and the output dimensions
\* it wrote before returning or throwing.
Returned(e, outs) == [err |-> e, outs |-> outs]
Throw(e) == Returned(e, NoDims)

\* ctx->SetOutputDim applied to the variables the output slots are bound to.
SetOutputDims(dims, n, outs) ==
    [v \in DOMAIN dims |->
        IF \E s \in DOMAIN outs : n.outputs[s][1] = v
        THEN outs[CHOOSE s \in DOMAIN outs : n.outputs[s][1] = v]
        ELSE dims[v]]

(***************************************************************************)
(* KLDivLossOp::InferShape                                                 *)
(***************************************************************************)
\* Variant: a pair is compared as soon as one side is known.
DimChecked_EitherKnown(runtime, a, b) == runtime \/ a > 0 \/ b > 0

\* Whether dimension pair (a, b) is compared.
DimChecked(runtime, a, b) == runtime \/ (a > 0 /\ b > 0)

\* The dimensions (1-based) at which the enforced comparison fails.
DimMismatches(runtime, dim_x, dim_target) ==
    {i \in 1..Len(dim_x) :
        DimChecked(runtime, dim_x[i], dim_target[i]) /\ dim_x[i] # dim_target[i]}

Min(S) == CHOOSE i \in S : \A j \in S : i <= j

ReductionValid(reduction) ==
    "mean" = reduction \/ "sum" = reduction \/
    "batchmean" = reduction \/ "none" = reduction

\* Variant: only "mean" is taken to reduce.
LossDim_OnlyMean(reduction, dim_x) ==
    IF "mean" = reduction THEN <<1>> ELSE dim_x

LossDim(reduction, dim_x) == IF "none" = reduction THEN dim_x ELSE <<1>>

\* Variant: only an X of higher rank than Target is refused.
RankMismatch_OnlyLonger(dim_x, dim_target) == Len(dim_x) > Len(dim_target)

RankMismatch(dim_x, dim_target) == Len(dim_x) # Len(dim_target)

\* Variant: Loss is written before the reduction is checked.
SetLossDim_WriteFirst(ctx, dim_x) ==
    LET reduction == ctx.attrs["reduction"] IN
    Returned(IF ReductionValid(reduction) THEN OK
             ELSE InvalidArgument("reduction", -1),
             ("Loss" :> LossDim(reduction, dim_x)))

\* The last step: the reduction is read and checked, then Loss is written.
SetLossDim(ctx, dim_x) ==
    LET reduction == ctx.attrs["reduction"] IN
    IF ~ReductionValid(reduction)
    THEN Throw(InvalidArgument("reduction", -1))
    ELSE Returned(OK, ("Loss" :> LossDim(reduction, dim_x)))

KLDivLossOp_InferShape(ctx) ==
    IF ~HasInput(ctx, "X") THEN Throw(NotFound("X"))
    ELSE IF ~HasInput(ctx, "Target") THEN Throw(NotFound("Target"))
    ELSE IF ~HasOutput(ctx, "Loss") THEN Throw(NotFound("Loss"))
    ELSE
      LET dim_x == GetInputDim(ctx, "X")
          dim_target == GetInputDim(ctx, "Target")
      IN
      IF RankMismatch(dim_x, dim_target)
      THEN Throw(InvalidArgument("rank", -1))
      ELSE IF DimMismatches(ctx.isRuntime, dim_x, dim_target) # {}
      THEN Throw(InvalidArgument("dimension",
                 Min(DimMismatches(ctx.isRuntime, dim_x, dim_target)) - 1))
      ELSE SetLossDim(ctx, dim_x)

(***************************************************************************)
(* Graph construction: a kldiv_loss node is created from supplied          *)
(* attributes and bindings; its attributes are validated and completed,    *)
(* then its shapes are inferred with IsRuntime() false.                    *)
(***************************************************************************)
FwdVar(slot) ==
    CASE slot = "X" -> "x"
      [] slot = "Target" -> "target"
      [] slot = "Loss" -> "loss"
      [] slot = GradVarName("Loss") -> GradVarName("loss")
      [] slot = GradVarName("X") -> GradVarName("x")

Bindings(all, present) ==
    [s \in all |-> IF s \in present THEN <<FwdVar(s)>> ELSE <<>>]

SuppliedAttrs ==
    {EmptyMap} \cup {("reduction" :> r) : r \in Reductions}
               \cup {("axis" :> "0")}

CreateOperator(supplied, ins, outs, d) ==
    /\ pc = "ready"
    /\ "kldiv_loss" \in DOMAIN opInfoMap
    /\ LET declared == [v \in {FwdVar(s) : s \in ins \cup outs} |->
                          IF v = "x" THEN d["X"]
                          ELSE IF v = "target" THEN d["Target"]
                          ELSE UnsetDim]
           n == OpDesc("kldiv_loss", Bindings(MakerInputs, ins),
                       Bindings(MakerOutputs, outs), OpAttrChecker(supplied))
           valid == Validate("kldiv_loss", supplied)
           res == KLDivLossOp_InferShape(ShapeCtx(n, declared, FALSE))
       IN
       IF valid # OK
       THEN /\ err' = valid
            /\ pc' = "rejected"
            /\ varDims' = declared
            /\ node' = OpDesc("kldiv_loss", n.inputs, n.outputs, supplied)
       ELSE /\ node' = n
            /\ varDims' = SetOutputDims(declared, n, res.outs)
            /\ err' = res.err
            /\ pc' = IF res.err = OK THEN "built" ELSE "rejected"
    /\ isRuntime' = FALSE
    /\ UNCHANGED <<pending, opInfoMap, allOpKernels, gradOps, varDtype,
                   execPlace, kernelKey>>

(***************************************************************************)
(* KLDivLossOpGrad::InferShape                                             *)
(***************************************************************************)
KLDivLossOpGrad_InferShape(ctx) ==
    IF ~HasInput(ctx, "X") THEN Throw(NotFound("X"))
    ELSE IF ~HasInput(ctx, "Target") THEN Throw(NotFound("Target"))
    ELSE IF ~HasInput(ctx, GradVarName("Loss"))
    THEN Throw(NotFound(GradVarName("Loss")))
    ELSE
      LET dim_x == GetInputDim(ctx, "X") IN
      IF HasOutput(ctx, GradVarName("X"))
      THEN Returned(OK, (GradVarName("X") :> dim_x))
      ELSE Returned(OK, NoDims)

\* The InferShape the catalog entry of the node's type supplies.
InferShape(n, ctx) ==
    IF n.type = "kldiv_loss" THEN KLDivLossOp_InferShape(ctx)
    ELSE KLDivLossOpGrad_InferShape(ctx)

(***************************************************************************)
(* KLDivLossOpGradMaker::Apply, with the accessors of SingleGradOpMaker.   *)
(***************************************************************************)
Input(fwd, name) == fwd.inputs[name]
\* The gradient variables of the forward output, as the caller supplies them.
OutputGrad(outputGradientNames, name) == <<outputGradientNames[name]>>
\* The gradient variables of the forward input; variables that need no
\* gradient are dropped.
InputGrad(fwd, name, noGradSet) ==
    LET kept == SelectSeq(fwd.inputs[name], LAMBDA v : v \notin noGradSet)
    IN [i \in 1..Len(kept) |-> GradVarName(kept[i])]

\* Variant: Target is wired from the forward X.
Apply_TargetFromX(fwd, outputGradientNames, noGradSet) ==
    OpDesc("kldiv_loss_grad",
           ("X" :> Input(fwd, "X")) @@
           ("Target" :> Input(fwd, "X")) @@
           (GradVarName("Loss") :> OutputGrad(outputGradientNames, "Loss")),
           (GradVarName("X") :> InputGrad(fwd, "X", noGradSet)),
           fwd.attrs)

\* Variant: SetAttrMap is left out, the backward node keeps the defaults.
Apply_DefaultAttrs(fwd, outputGradientNames, noGradSet) ==
    OpDesc("kldiv_loss_grad",
           ("X" :> Input(fwd, "X")) @@
           ("Target" :> Input(fwd, "Target")) @@
           (GradVarName("Loss") :> OutputGrad(outputGradientNames, "Loss")),
           (GradVarName("X") :> InputGrad(fwd, "X", noGradSet)),
           MakerAttrDefaults)

KLDivLossOpGradMaker_Apply(fwd, outputGradientNames, noGradSet) ==
    OpDesc("kldiv_loss_grad",
           ("X" :> Input(fwd, "X")) @@
           ("Target" :> Input(fwd, "Target")) @@
           (GradVarName("Loss") :> OutputGrad(outputGradientNames, "Loss")),
           (GradVarName("X") :> InputGrad(fwd, "X", noGradSet)),
           fwd.attrs)

\* SingleGradOpMaker: the gradient of a node is the one node Apply fills in.
GradOpMaker(fwd, outputGradientNames, noGradSet) ==
    <<KLDivLossOpGradMaker_Apply(fwd, outputGradientNames, noGradSet)>>

VarsOf(n) ==
    {n.inputs[s][1] : s \in Bound(n.inputs)} \cup
    {n.outputs[s][1] : s \in Bound(n.outputs)}

\* The variables of node n are added to the block; a new variable has no
\* dimensions yet.
Declare(dims, n) ==
    [v \in DOMAIN dims \cup VarsOf(n) |->
        IF v \in DOMAIN dims THEN dims[v] ELSE UnsetDim]

GradNames == {GradVarName("loss"), "loss@GRAD@RENAME"}

\* The backward pass of a constructed node is requested: the gradient maker
\* of its type builds the backward node, whose shapes are then inferred.
AppendBackward(outputGradientNames, noGradSet) ==
    /\ pc \in {"built", "loaded"}
    /\ node.type = "kldiv_loss"
    /\ opInfoMap[node.type].gradOpMaker
    /\ LET ops == GradOpMaker(node, outputGradientNames, noGradSet)
           g == ops[1]
           declared == Declare(varDims, g)
           res == KLDivLossOpGrad_InferShape(ShapeCtx(g, declared, FALSE))
       IN
       /\ gradOps' = ops
       /\ varDims' = SetOutputDims(declared, g, res.outs)
       /\ err' = res.err
       /\ pc' = IF res.err = OK THEN "grad_built" ELSE "grad_rejected"
    /\ isRuntime' = FALSE
    /\ UNCHANGED <<pending, opInfoMap, allOpKernels, node, varDtype, execPlace,
                   kernelKey>>

(***************************************************************************)
(* Execution of a node of a stored program: the kernel is chosen from the  *)
(* expected kernel type, then shapes are inferred with IsRuntime() true.   *)
(***************************************************************************)
Places == {"CPU", "CUDA"}
DTypes == {"FP16", "FP32", "FP64"}
GradInputs == {"X", "Target", GradVarName("Loss")}
GradOutputs == {GradVarName("X")}
InputsOf(type) == IF type = "kldiv_loss" THEN MakerInputs ELSE GradInputs
OutputsOf(type) == IF type = "kldiv_loss" THEN MakerOutputs ELSE GradOutputs

\* The dimensions the stored program records for an output variable.
StoredDims == {UnsetDim, <<1>>}

LoadOperator(type, reduction, ins, outs, stored) ==
    /\ pc = "ready"
    /\ type \in DOMAIN opInfoMap
    /\ LET n == OpDesc(type, Bindings(InputsOf(type), ins),
                       Bindings(OutputsOf(type), outs),
                       ("reduction" :> reduction))
       IN /\ node' = n
          /\ varDims' = [v \in VarsOf(n) |->
                            IF v \in {n.outputs[s][1] : s \in Bound(n.outputs)}
                            THEN stored ELSE UnsetDim]
    /\ pc' = "loaded"
    /\ err' = OK
    /\ UNCHANGED <<pending, opInfoMap, allOpKernels, gradOps, varDtype,
                   isRuntime, execPlace, kernelKey>>

OpKernelType(dtype, place) == [dtype |-> dtype, place |-> place]
\* The data type of the tensor bound to the slot.
IndicateVarDataType(n, dtypes, slot) == dtypes[n.inputs[slot][1]]

\* Variant: the place of the kernel type is always the CPU.
GetExpectedKernelType_CpuPlace(n, dtypes, place) ==
    OpKernelType(IndicateVarDataType(n, dtypes, "X"), "CPU")

KLDivLossOp_GetExpectedKernelType(n, dtypes, place) ==
    OpKernelType(IndicateVarDataType(n, dtypes, "X"), place)

KLDivLossOpGrad_GetExpectedKernelType(n, dtypes, place) ==
    OpKernelType(IndicateVarDataType(n, dtypes, GradVarName("Loss")), place)

GetExpectedKernelType(n, dtypes, place) ==
    IF n.type = "kldiv_loss"
    THEN KLDivLossOp_GetExpectedKernelType(n, dtypes, place)
    ELSE KLDivLossOpGrad_GetExpectedKernelType(n, dtypes, place)

\* The slot whose tensor decides the data type of the kernel.
DataTypeSlot(type) ==
    IF type = "kldiv_loss" THEN "X" ELSE GradVarName("Loss")

\* The slots whose dimensions the shape inference of the type reads.
DimSlots(type) == IF type = "kldiv_loss" THEN {"X", "Target"} ELSE {"X"}

Run(place, dtypes) ==
    /\ pc = "loaded"
    /\ varDtype' = dtypes
    /\ execPlace' = place
    /\ IF DataTypeSlot(node.type) \notin Bound(node.inputs)
       THEN /\ err' = NotFound(DataTypeSlot(node.type))
            /\ pc' = "failed"
            /\ UNCHANGED <<kernelKey, varDims, isRuntime>>
       ELSE
         LET kt == GetExpectedKernelType(node, dtypes, place)
             key == KernelKey(node.type, kt.place, kt.dtype)
         IN
         /\ kernelKey' = key
         /\ IF key \notin allOpKernels
            THEN /\ err' = Err("NoKernelFound", node.type, -1)
                 /\ pc' = "failed"
                 /\ UNCHANGED <<varDims, isRuntime>>
            ELSE \E d \in [DimSlots(node.type) \cap Bound(node.inputs)
                             -> RuntimeShapes] :
                   LET fed == [v \in DOMAIN varDims |->
                                 IF \E s \in DOMAIN d : node.inputs[s][1] = v
                                 THEN d[CHOOSE s \in DOMAIN d :
                                            node.inputs[s][1] = v]
                                 ELSE varDims[v]]
                       res == InferShape(node, ShapeCtx(node, fed, TRUE))
                   IN /\ varDims' = SetOutputDims(fed, node, res.outs)
                      /\ err' = res.err
                      /\ pc' = IF res.err = OK THEN "done" ELSE "failed"
                      /\ isRuntime' = TRUE
    /\ UNCHANGED <<pending, opInfoMap, allOpKernels, node, gradOps>>

\* Next dispatches on the phase of the process.
Next ==
    \/ /\ pc = "init"
       /\ \E r \in Registrations : RegisterOperator(r)
    \/ /\ pc = "init"
       /\ \E r \in Registrations : RegisterOpKernel(r)
    \/ InitDone
    \/ /\ pc = "ready"
       /\ \E supplied \in SuppliedAttrs, ins \in SUBSET MakerInputs,
             outs \in SUBSET MakerOutputs :
             \E d \in [ins -> StaticShapes] :
                CreateOperator(supplied, ins, outs, d)
    \/ /\ pc \in {"built", "loaded"}
       /\ \E names \in [{"Loss"} -> GradNames], noGradSet \in SUBSET {"x"} :
             AppendBackward(names, noGradSet)
    \/ /\ pc = "ready"
       /\ \E type \in {"kldiv_loss", "kldiv_loss_grad"}, r \in Reductions :
             \E ins \in SUBSET InputsOf(type), outs \in SUBSET OutputsOf(type) :
                \E stored \in StoredDims :
                   LoadOperator(type, r, ins, outs, stored)
    \/ /\ pc = "loaded"
       /\ \E place \in Places :
             \E dtypes \in [{node.inputs[s][1] :
                               s \in {DataTypeSlot(node.type), "X"}
                                       \cap Bound(node.inputs)} -> DTypes] :
                Run(place, dtypes)

Spec == Init /\ [][Next]_vars
(***************************************************************************)
(* Properties.                                                             *)
(***************************************************************************)
IsForward == node.type = "kldiv_loss"
AllBound ==
    /\ Bound(node.inputs) = DOMAIN node.inputs
    /\ Bound(node.outputs) = DOMAIN node.outputs
\* KLDivLossOp::InferShape ran on node, at construction or at execution.
ForwardInferred ==
    /\ IsForward
    /\ \/ pc = "built"
       \/ pc = "rejected" /\ err.kind # "SchemaViolation"
       \/ pc \in {"done", "failed"} /\ isRuntime
\* ... and succeeded.
ForwardSucceeded == IsForward /\ pc \in {"built", "done"}
Reduction == node.attrs["reduction"]
DimX == varDims["x"]
DimTarget == varDims["target"]
DimLoss == varDims["loss"]

\* C1: when shape inference of kldiv_loss succeeds, Loss has the shape of X
\* if reduction is "none", and the shape [1] for "mean", "sum" and
\* "batchmean", whatever the rank of X.
C1_LossShape ==
    ForwardSucceeded =>
        /\ Reduction = "none" => DimLoss = DimX
        /\ Reduction \in {"mean", "sum", "batchmean"} => DimLoss = <<1>>

C1_Witness ==
    /\ ForwardSucceeded
    /\ Reduction = "batchmean"
    /\ Len(DimX) = 2
    /\ DimLoss = <<1>>

\* The bindings of the unknown dimensions of a shape to concrete sizes.
Concretizations(shape) ==
    {c \in [1..Len(shape) -> RuntimeDimValues] :
        \A i \in 1..Len(shape) : shape[i] # -1 => c[i] = shape[i]}
Unifiable(a, b) == Concretizations(a) \cap Concretizations(b) # {}

\* C2: for X and Target of equal rank, the check at graph construction never
\* rejects two shapes that some binding of their unknown dimensions makes
\* equal, and the check at execution accepts only identical shapes.
C2_TwoPhaseCheck ==
    (ForwardInferred /\ AllBound /\ Len(DimX) = Len(DimTarget)) =>
        /\ (~isRuntime /\ Unifiable(DimX, DimTarget)) => err.what # "dimension"
        /\ (isRuntime /\ pc = "done") => DimX = DimTarget

C2_Witness ==
    /\ ForwardInferred /\ AllBound
    /\ ~isRuntime
    /\ pc = "built"
    /\ Len(DimX) = 2 /\ Len(DimTarget) = 2
    /\ DimX[1] = -1 /\ DimTarget[1] = 2
    /\ DimX[2] = 1 /\ DimTarget[2] = 1

\* C3: whenever the ranks of X and Target differ, shape inference of
\* kldiv_loss fails on the rank check, at construction and at execution,
\* whether or not a dimension is unknown, and no dimension is compared.
C3_RankAlwaysChecked ==
    (ForwardInferred /\ AllBound /\ Len(DimX) # Len(DimTarget)) =>
        /\ pc \in {"rejected", "failed"}
        /\ err = InvalidArgument("rank", -1)

C3_Witness ==
    /\ ForwardInferred /\ AllBound
    /\ ~isRuntime
    /\ DimX = <<-1>>
    /\ DimTarget = <<-1, 2>>
    /\ err = InvalidArgument("rank", -1)

\* C4: a kldiv_loss node whose reduction is outside "none", "mean", "sum",
\* "batchmean" is rejected at construction by the validation of its
\* attributes against the schema (SchemaViolation).
C4_InvalidReductionIsSchemaViolation ==
    (IsForward /\ pc \in {"built", "rejected"} /\ AllBound
       /\ "reduction" \in DOMAIN node.attrs
       /\ Reduction \notin ValidReductions
       /\ DimX = DimTarget)
    => err.kind = "SchemaViolation"

\* C5: building the gradient of a forward node yields exactly one node of
\* type kldiv_loss_grad whose inputs are X and Target, bound as in the
\* forward node, and Loss@GRAD, bound to the supplied gradient of Loss, and
\* whose only output slot is X@GRAD: one gradient output, none for Target.
C5_GradientWiring ==
    [][\A names \in [{"Loss"} -> GradNames], noGradSet \in SUBSET {"x"} :
         AppendBackward(names, noGradSet) =>
            /\ Len(gradOps') = 1
            /\ gradOps'[1].type = "kldiv_loss_grad"
            /\ DOMAIN gradOps'[1].inputs = {"X", "Target", "Loss@GRAD"}
            /\ gradOps'[1].inputs["X"] = node.inputs["X"]
            /\ gradOps'[1].inputs["Target"] = node.inputs["Target"]
            /\ gradOps'[1].inputs["Loss@GRAD"] = <<names["Loss"]>>
            /\ DOMAIN gradOps'[1].outputs = {"X@GRAD"}
            /\ Cardinality(DOMAIN gradOps'[1].outputs) = 1
            /\ ("x" \notin noGradSet /\ "X" \in Bound(node.inputs))
                  => gradOps'[1].outputs["X@GRAD"] = <<"x@GRAD">>
      ]_vars

C5_Witness ==
    /\ pc = "grad_built"
    /\ AllBound
    /\ Len(gradOps) = 1
    /\ gradOps[1].inputs["X"] = <<"x">>
    /\ gradOps[1].inputs["Target"] = <<"target">>
    /\ gradOps[1].inputs["Loss@GRAD"] = <<"loss@GRAD@RENAME">>
    /\ gradOps[1].outputs["X@GRAD"] = <<"x@GRAD">>

\* C6 as stated: the no-need-buffer marker set registered for
\* kldiv_loss_grad contains Target.
C6_TargetNoNeedBuffer ==
    "kldiv_loss_grad" \in DOMAIN opInfoMap =>
        "Target" \in opInfoMap["kldiv_loss_grad"].noNeedBuffer

\* C6 as amended: the no-need-buffer marker set registered for
\* kldiv_loss_grad is {X}; Target is not in it.
C6_XNoNeedBuffer ==
    "kldiv_loss_grad" \in DOMAIN opInfoMap =>
        opInfoMap["kldiv_loss_grad"].noNeedBuffer = {"X"}

C6_Witness ==
    /\ pc = "grad_built"
    /\ "kldiv_loss_grad" \in DOMAIN opInfoMap
    /\ gradOps[1].type = "kldiv_loss_grad"
    /\ "X" \in Bound(gradOps[1].inputs)
    /\ "Target" \in Bound(gradOps[1].inputs)

\* C7: the backward node carries the attribute map of the forward node,
\* same keys and same values, for every reduction; building the gradient
\* leaves the forward node unchanged.
C7_AttrsCopied ==
    [][(pc \in {"built", "loaded"} /\ pc' \in {"grad_built", "grad_rejected"})
         => /\ gradOps'[1].attrs = node.attrs
            /\ DOMAIN gradOps'[1].attrs = DOMAIN node.attrs
            /\ gradOps'[1].attrs["reduction"] = node.attrs["reduction"]
            /\ node' = node
      ]_vars

C7_Witness ==
    /\ pc = "grad_built"
    /\ Reduction = "invalid_value"
    /\ gradOps[1].attrs = ("reduction" :> "invalid_value")

\* The slot whose data type the kernel key of a node takes.
KeySlot == IF IsForward THEN "X" ELSE "Loss@GRAD"
Registered(place, dtype) == place = "CPU" /\ dtype \in {"FP32", "FP64"}

\* C8 as stated: the data type of the kernel key is the data type of the
\* primary input X of the node, for both operators of the file.
C8_KeyFromPrimaryInput ==
    (kernelKey # NoKey /\ AllBound) =>
        kernelKey.dtype = varDtype[node.inputs["X"][1]]

\* C8 as amended: the kernel key is (operator type, device kind of the
\* execution context, data type of X for kldiv_loss and of Loss@GRAD for
\* kldiv_loss_grad); a kernel is found exactly on CPU with float32 or
\* float64, and otherwise the run fails with NoKernelFound, with no other
\* key tried and no shape written.
C8_KernelDispatch ==
    [][(pc = "loaded" /\ pc' \in {"done", "failed"}
          /\ KeySlot \in Bound(node.inputs))
         => LET dtype == varDtype'[node.inputs[KeySlot][1]] IN
            /\ kernelKey' = KernelKey(node.type, execPlace', dtype)
            /\ Registered(execPlace', dtype) <=> kernelKey' \in allOpKernels
            /\ ~Registered(execPlace', dtype) =>
                  /\ err' = Err("NoKernelFound", node.type, -1)
                  /\ pc' = "failed"
                  /\ varDims' = varDims
            /\ Registered(execPlace', dtype) => err'.kind # "NoKernelFound"
      ]_vars

C8_Witness ==
    /\ pc = "failed"
    /\ execPlace = "CPU"
    /\ kernelKey = KernelKey("kldiv_loss", "CPU", "FP16")
    /\ err = Err("NoKernelFound", "kldiv_loss", -1)

\* C9: a second registration of an operator type fails with
\* DuplicateOperatorType and leaves the catalog unchanged; the registrations
\* of this file succeed in any order and leave exactly the operator types
\* kldiv_loss and kldiv_loss_grad, with two kernel keys each.
C9_Registration ==
    [][/\ \A r \in Registrations :
            (RegisterOperator(r) /\ r.type \in DOMAIN opInfoMap) =>
               /\ err' = Err("DuplicateOperatorType", r.type, -1)
               /\ opInfoMap' = opInfoMap
               /\ allOpKernels' = allOpKernels
       /\ \A r \in pending :
            (RegisterOperator(r) \/ RegisterOpKernel(r)) => err' = OK
       /\ pc' = "ready" =>
            /\ DOMAIN opInfoMap' = {"kldiv_loss", "kldiv_loss_grad"}
            /\ \A t \in DOMAIN opInfoMap' :
                  Cardinality({k \in allOpKernels' : k.op = t}) = 2
            /\ Cardinality(allOpKernels') = 4
      ]_vars

C9_Witness ==
    /\ pc = "aborted"
    /\ err = Err("DuplicateOperatorType", "kldiv_loss_grad", -1)
    /\ DOMAIN opInfoMap = {"kldiv_loss", "kldiv_loss_grad"}

\* The node and the variables a step's shape inference worked on.
DimBefore(v) == IF v \in DOMAIN varDims THEN varDims[v] ELSE UnsetDim
OutputVars(n) == {n.outputs[s][1] : s \in Bound(n.outputs)}
InputVars(n) == {n.inputs[s][1] : s \in Bound(n.inputs)}

\* C10: a failed shape inference of kldiv_loss or kldiv_loss_grad leaves the
\* shape of every output as it was before the call; kldiv_loss_grad without
\* an X@GRAD output succeeds and writes nothing.
C10_FailureWritesNothing ==
    [][/\ (pc \in {"ready", "loaded"} /\ pc' \in {"rejected", "failed"}) =>
            \A v \in OutputVars(node') : varDims'[v] = DimBefore(v)
       /\ (pc \in {"built", "loaded"} /\ pc' = "grad_rejected") =>
            \A v \in OutputVars(gradOps'[1]) : varDims'[v] = DimBefore(v)
       /\ (pc \in {"built", "loaded"} /\ pc' = "grad_built"
             /\ Bound(gradOps'[1].outputs) = {}) =>
            \A v \in DOMAIN varDims' : varDims'[v] = DimBefore(v)
       /\ (pc = "loaded" /\ pc' = "done" /\ ~IsForward
             /\ Bound(node.outputs) = {}) =>
            \A v \in DOMAIN varDims' \ InputVars(node) :
               varDims'[v] = DimBefore(v)
      ]_vars

C10_Witness ==
    /\ pc = "failed"
    /\ isRuntime
    /\ IsForward /\ AllBound
    /\ DimX = DimTarget
    /\ err = InvalidArgument("reduction", -1)
    /\ DimLoss = UnsetDim
====
